---------------------------- MODULE Spec2Model ----------------------------
(***************************************************************************)
(* A model of TrimSubs.py: main() as a linear pipeline                     *)
(*   read_trims -> join_trims -> frames2time -> (sub_subs | time_subs)     *)
(* with the functions of the pipeline as operators computed the way the    *)
(* Python code computes them.                                              *)
(*                                                                         *)
(* Text is modelled at the level of the lexical pieces the regular         *)
(* expressions of read_trims distinguish (see Tok).  Times read from a     *)
(* timecode file are exact rationals, kept as integers in units of         *)
(* 1/TimeDen ms; pysubs.Time values are integers in ms.                    *)
(***************************************************************************)
EXTENDS Integers, Sequences, FiniteSets, TLC

VARIABLES
    pc,            \* position in main(): "read", "join", "map", "subs", "cut",
                   \* "save", "done", "exit" (exit() called), "crash" (uncaught)
    avs,           \* lines of the Avisynth script, each a sequence of tokens
    reversed_,     \* args.reversed
    label,         \* args.label ("" when absent)
    line_number,   \* args.line (0 when absent)
    vfr,           \* a timecode file is used
    fps,           \* constant rate, as the fraction <<n, d>> of 1000 / fps:
                   \* n/d ms per frame
    tc_header,     \* the header line of the timecode file: "v2", "v1" or
                   \* "other" ("none" without a timecode file)
    tc_v1,         \* the lines of a v1 timecode file after the header
    tc_v2,         \* the lines of a v2 timecode file after the header:
                   \* times in 1/TimeDen ms
    tc_lines,      \* 'lines' of frames2time: the v2 timecodes, in 1/TimeDen
                   \* ms; <<>> until the file is read
    otc,           \* args.otc: an output timecode file is requested
    input,         \* kind of the input subtitle: "none", "sub", "ass"
    decodable,     \* the input subtitle file can be decoded
    sub_file,      \* the input subtitle file: MicroDVD lines or events
    subs,          \* the events decoded from the input subtitle file
    trims_frames,  \* result of read_trims, then of join_trims
    trims_time,    \* result of frames2time
    new_subs,      \* result of time_subs / new_lines of sub_subs
    otc_file,      \* the output timecode file: <<>> while not written,
                   \* else <<contents>>
    out_file,      \* the output subtitle file, likewise
    msg            \* message of exit(), or the uncaught exception

vars == <<pc, avs, reversed_, label, line_number, vfr, fps, tc_header, tc_v1,
          tc_v2, tc_lines, otc, input, decodable, sub_file, subs,
          trims_frames, trims_time, new_subs, otc_file, out_file, msg>>

-----------------------------------------------------------------------------
(* Bounds of the model *)

MaxLines == 2      \* lines of a free-form script
MaxTokens == 4     \* tokens of a free-form script, all lines together
MaxTrims == 3      \* Trim calls of a generated script
MaxFrame == 3      \* greatest frame number of a generated script
MaxNeg == 1        \* greatest frame count -b of a Trim(a, b) with b <= 0
MaxCutTrims == 2   \* Trim calls of a script whose Trims are mapped to times
MaxCutFrame == 2   \* greatest frame number of a script whose Trims cut events
MaxEvents == 2     \* lines or events of an input subtitle
MaxRanges == 2     \* lines start,end,fps of a v1 timecode file

-----------------------------------------------------------------------------
(* General helpers *)

Max(x, y) == IF x > y THEN x ELSE y
Min(x, y) == IF x < y THEN x ELSE y

RECURSIVE SeqsOfLen(_, _)
SeqsOfLen(S, n) ==
    IF n = 0 THEN {<<>>}
    ELSE {Append(s, x) : s \in SeqsOfLen(S, n - 1), x \in S}

SeqsUpTo(S, n) == UNION {SeqsOfLen(S, k) : k \in 0..n}

Reverse(s) == [i \in 1..Len(s) |-> s[Len(s) + 1 - i]]

-----------------------------------------------------------------------------
(* The script text.  A line is a sequence of tokens:                       *)
(*   "Trim("  the text `Trim(` (any case), up to the first digit           *)
(*   "args"   the text `a,b)` with a a string of digits, b of digits       *)
(*            with an optional minus sign                                  *)
(*   "#"      a hash                                                       *)
(*   "w"      a word character that is part of no other token              *)
(*   "+"      a character that is neither a word character nor a hash      *)
(*   "cuts"   the text of a label                                          *)

Tok(k, a, b) == [k |-> k, a |-> a, b |-> b]

TrimHead == Tok("Trim(", 0, 0)
Hash == Tok("#", 0, 0)
WordChar == Tok("w", 0, 0)
Sep == Tok("+", 0, 0)
Cuts == Tok("cuts", 0, 0)

\* \b before Trim: the preceding character, if any, is not a word character
IsWord(t) == t.k \in {"w", "cuts"}

\* [^#]* : the first n tokens of s contain no hash
HashFree(s, n) == \A k \in 1..n : s[k].k # "#"

\* ^[^#]*\bTrim\s*\(\s*(\d+)\s*,\s*(-?\d+)\s*\) matches with Trim at token i
MatchAt(s, i) ==
    /\ i >= 1
    /\ i + 1 <= Len(s)
    /\ s[i].k = "Trim("
    /\ s[i + 1].k = "args"
    /\ HashFree(s, i + 1)
    /\ (i = 1 \/ ~IsWord(s[i - 1]))

\* re_trim_search with a search that returns the first match, not the last
re_trim_search_first(s) ==
    LET I == {i \in 1..Len(s) : MatchAt(s, i)}
    IN  IF I = {} THEN 0 ELSE CHOOSE i \in I : \A j \in I : i <= j

\* re_trim.search(s): [^#]* is greedy, so the match found is the one whose
\* Trim starts last, looked for from the end of s; 0 stands for None
RECURSIVE last_match(_, _)
last_match(s, i) ==
    IF i < 1 THEN 0
    ELSE IF MatchAt(s, i) THEN i ELSE last_match(s, i - 1)

re_trim_search(s) == last_match(s, Len(s) - 1)

\* re_line.search(s): a Trim before any hash and, with a label, a hash
\* followed somewhere by the label
re_line_search(s, lab) ==
    /\ \E i \in 1..Len(s) : MatchAt(s, i)
    /\ lab # "" =>
         \E j \in 1..Len(s) : \E k \in 1..Len(s) :
             j < k /\ s[j].k = "#" /\ s[k].k = lab

\* the while(1) loop of read_trims: 'end' is the number of tokens of
\* line[:end]; res.start(1) is the start of the "args" token
RECURSIVE scan_trims(_, _, _)
scan_trims(line, end, trims) ==
    LET res == re_trim_search(SubSeq(line, 1, end))
    IN  IF res = 0 THEN trims
        ELSE scan_trims(line, res,
                        Append(trims, <<line[res + 1].a, line[res + 1].b>>))

\* trim_range with b >= 0 taken as an end frame
trim_range_ge(trim) ==
    <<trim[1], IF trim[2] >= 0 THEN trim[2] ELSE trim[1] - trim[2] - 1>>

\* (int(trim[0]), int(trim[1]) if int(trim[1]) > 0
\*                else int(trim[0]) - int(trim[1]) - 1)
trim_range(trim) ==
    <<trim[1], IF trim[2] > 0 THEN trim[2] ELSE trim[1] - trim[2] - 1>>

\* lines[line_number - 1:line_number] for line_number >= 1
line_slice(lines, n) ==
    IF n <= Len(lines) THEN <<lines[n]>> ELSE <<>>

\* the first line, in search order, that re_line matches; 0 if none
selected_line(lines, lab) ==
    LET I == {i \in 1..Len(lines) : re_line_search(lines[i], lab)}
    IN  IF I = {} THEN 0 ELSE CHOOSE i \in I : \A j \in I : i <= j

\* read_trims(avs, reversed_, label, line_number)
read_trims(script, rev, lab, num) ==
    LET sliced == IF num # 0 THEN line_slice(script, num) ELSE script
        lines == IF rev THEN Reverse(sliced) ELSE sliced
        sel == selected_line(lines, lab)
    IN  IF sel = 0
        THEN [ok |-> FALSE, trims |-> <<>>,
              msg |-> IF lab # "" THEN "No Trims found with label"
                      ELSE IF num # 0
                           THEN "No Trims found in the specified line"
                           ELSE "No Trims found in the specified Avisynth script"]
        ELSE LET trims == scan_trims(lines[sel], Len(lines[sel]), <<>>)
                 rtrims == Reverse(trims)
             IN  [ok |-> TRUE,
                  trims |-> [i \in 1..Len(rtrims) |-> trim_range(rtrims[i])],
                  msg |-> ""]

-----------------------------------------------------------------------------
(* join_trims.  The for loop with its two locals; the IndexError raised by *)
(* trims[i+1] at the last element ends the loop in the except clause,      *)
(* after prev has been set for that element.                               *)

RECURSIVE join_loop(_, _, _, _)
join_loop(trims, i, prev, new_trims) ==
    IF i > Len(trims) THEN new_trims
    ELSE LET trim == trims[i]
             prev1 == IF prev = -1 THEN trim[1] ELSE prev
         IN  IF i + 1 > Len(trims)
             THEN Append(new_trims, <<prev1, trims[Len(trims)][2]>>)
             ELSE IF trims[i + 1][1] - trim[2] # 1
                  THEN join_loop(trims, i + 1, -1,
                                 Append(new_trims, <<prev1, trim[2]>>))
                  ELSE join_loop(trims, i + 1, prev1, new_trims)

\* join_trims whose except clause appends the last Trim as it is
RECURSIVE join_loop_last(_, _, _, _)
join_loop_last(trims, i, prev, new_trims) ==
    IF i > Len(trims) THEN new_trims
    ELSE LET trim == trims[i]
             prev1 == IF prev = -1 THEN trim[1] ELSE prev
         IN  IF i + 1 > Len(trims)
             THEN Append(new_trims, trims[Len(trims)])
             ELSE IF trims[i + 1][1] - trim[2] # 1
                  THEN join_loop_last(trims, i + 1, -1,
                                      Append(new_trims, <<prev1, trim[2]>>))
                  ELSE join_loop_last(trims, i + 1, prev1, new_trims)

join_trims_last(trims) == join_loop_last(trims, 1, -1, <<>>)

\* join_trims that joins a Trim to the next one only, never a run already
\* joined
RECURSIVE join_loop_pairs(_, _, _, _)
join_loop_pairs(trims, i, prev, new_trims) ==
    IF i > Len(trims) THEN new_trims
    ELSE LET trim == trims[i]
             prev1 == IF prev = -1 THEN trim[1] ELSE prev
         IN  IF i + 1 > Len(trims)
             THEN Append(new_trims, <<prev1, trims[Len(trims)][2]>>)
             ELSE IF trims[i + 1][1] - trim[2] # 1 \/ prev # -1
                  THEN join_loop_pairs(trims, i + 1, -1,
                                       Append(new_trims, <<prev1, trim[2]>>))
                  ELSE join_loop_pairs(trims, i + 1, prev1, new_trims)

join_trims_pairs(trims) == join_loop_pairs(trims, 1, -1, <<>>)

join_trims(trims) == join_loop(trims, 1, -1, <<>>)

-----------------------------------------------------------------------------
(* Times *)

TimeDen == 3       \* a time of a timecode file is a multiple of 1/TimeDen ms

\* round(n / d) of Python 3 for d > 0: to the nearest integer, a tie to the
\* even one
RoundDiv(n, d) ==
    LET q == n \div d
        r == n % d
    IN  IF 2 * r < d THEN q
        ELSE IF 2 * r > d THEN q + 1
        ELSE IF q % 2 = 0 THEN q ELSE q + 1

\* round(time) for a time in 1/TimeDen ms
Round(time) == RoundDiv(time, TimeDen)

\* time_format(time, dic=True), time in 1/TimeDen ms
time_format(time) ==
    LET time_pos == IF time > 0 THEN Round(time) ELSE -Round(time)
        ms == time_pos % 1000
        s == (time_pos \div 1000) % 60
        m == ((time_pos \div 1000) \div 60) % 60
        h == ((time_pos \div 1000) \div 60) \div 60
    IN  IF time > 0 THEN [h |-> h, m |-> m, s |-> s, ms |-> ms]
        ELSE [h |-> -h, m |-> -m, s |-> -s, ms |-> -ms]

\* pysubs.Time(h=, m=, s=, ms=): a time in ms
Time(d) == ((d.h * 60 + d.m) * 60 + d.s) * 1000 + d.ms

\* pysubs.Time(frame=, fps=): the time in ms of a frame at a constant rate
\* of rate[1]/rate[2] ms per frame
FrameTime(frame, rate) == RoundDiv(frame * rate[1], rate[2])

\* Trim(start, end, frame_shift, time_shift); the shift that is not passed
\* stays None, here zero
Trim(start, end, frame_shift, time_shift) ==
    [start |-> start, end |-> end,
     frame_shift |-> frame_shift, time_shift |-> time_shift]

NoShift == [h |-> 0, m |-> 0, s |-> 0, ms |-> 0]

\* Format3 with '{:.0f}' as the format: whole ms, in thousandths of a ms
Format0(x) == RoundDiv(x, TimeDen) * 1000

\* '{:.3f}'.format(x) of a time x in 1/TimeDen ms: thousandths of a ms
Format3(x) == RoundDiv(x * 1000, TimeDen)

-----------------------------------------------------------------------------
(* frames2time, constant fps: the for loop over trims_frames.  st holds    *)
(* the locals gap, prev_end and trims_time.                                *)

RECURSIVE cfr_loop(_, _, _, _)
cfr_loop(trims, i, rate, st) ==
    IF i > Len(trims) THEN st
    ELSE LET trim == trims[i]
             gap == trim[1] - st.prev_end
         IN  cfr_loop(trims, i + 1, rate,
                 [gap |-> gap,
                  prev_end |-> trim[2] + 1 - gap,
                  trims_time |-> Append(st.trims_time,
                      Trim(FrameTime(trim[1], rate),
                           FrameTime(trim[2] + 1, rate), -gap, NoShift))])

\* the timecode file written with a constant fps:
\* '{:.3f}'.format(ms * i) for i in range(prev_end + 1), ms = 1000 / fps
cfr_otc(prev_end, rate) ==
    [i \in 1..Max(prev_end + 1, 0) |->
        RoundDiv((i - 1) * 1000 * rate[1], rate[2])]

(* timecode_v1_to_v2.  A v1 file is [assume, inters]: the rate of its      *)
(* Assume line and its lines start,end,fps as <<start, end, rate>>; a rate *)
(* is the fraction <<n, d>> of 1000 / fps.  The files modelled have an     *)
(* Assume line and rates of a whole number of ms per frame, which          *)
(* '{:.3f}' writes exactly.                                                *)

\* the for loop over inters, which inters[i+1] leaves by IndexError at the
\* last one
RECURSIVE v1_inters_loop(_, _, _, _, _)
v1_inters_loop(inters, i, end, default, all_inters) ==
    LET inter == inters[i]
        all1 == Append(all_inters, inter)
        last == inters[Len(inters)]
    IN  IF i + 1 > Len(inters)
        THEN IF end > last[2]
             THEN Append(all1, <<last[2] + 1, end, default>>)
             ELSE all1
        ELSE v1_inters_loop(inters, i + 1, end, default,
                 IF inters[i + 1][1] - inter[2] > 1
                 THEN Append(all1,
                          <<inter[2] + 1, inters[i + 1][1] - 1, default>>)
                 ELSE all1)

\* all_inters of timecode_v1_to_v2 for a file with a line at least, start = 0
v1_all_inters(inters, end, default) ==
    v1_inters_loop(inters, 1, end, default,
        IF 0 < inters[1][1] THEN <<<<0, inters[1][1] - 1, default>>>>
        ELSE <<>>)

\* the loop "v1 -> v2": offset is the last entry written
RECURSIVE v1_v2_loop(_, _, _)
v1_v2_loop(all_inters, k, v2) ==
    IF k > Len(all_inters) THEN v2
    ELSE LET inter == all_inters[k]
             offset == v2[Len(v2)]
         IN  v1_v2_loop(all_inters, k + 1,
                 v2 \o [i \in 1..(inter[2] - inter[1] + 1) |->
                           offset + (i * inter[3][1] * TimeDen)
                                        \div inter[3][2]])

\* timecode_v1_to_v2(lines, end=end): ok is FALSE when inters[0] has raised
\* IndexError
timecode_v1_to_v2(v1, end) ==
    IF Len(v1.inters) = 0 THEN [ok |-> FALSE, v2 |-> <<>>]
    ELSE [ok |-> TRUE,
          v2 |-> v1_v2_loop(v1_all_inters(v1.inters, end, v1.assume), 1,
                            <<0>>)]

\* "Read timecode file" of frames2time: lines, or the way the run ends
read_timecodes(header, v1, v2, trims) ==
    IF header = "v2" THEN [ok |-> TRUE, end |-> "", lines |-> v2]
    ELSE IF header = "v1"
    THEN LET r == timecode_v1_to_v2(v1, trims[Len(trims)][2])
         IN  [ok |-> r.ok, end |-> "crash", lines |-> r.v2]
    ELSE [ok |-> FALSE, end |-> "exit", lines |-> <<>>]

(* frames2time, timecode file: the for loop over trims_frames.  st holds   *)
(* lines, gap, prev_end, trims_time, new_lines (without the header) and    *)
(* ok, which is FALSE once an IndexError has left the function.            *)

\* lines[lo:hi] of Python for 0 <= lo
PySlice(s, lo, hi) == SubSeq(s, lo + 1, Min(hi, Len(s)))

RECURSIVE vfr_loop(_, _, _)
vfr_loop(trims, i, st) ==
    IF i > Len(trims) \/ ~st.ok THEN st
    ELSE LET trim == trims[i]
             lines == st.lines
         IN  IF trim[1] >= Len(lines)
             THEN [st EXCEPT !.ok = FALSE]                 \* lines[trim[0]]
             ELSE IF trim[2] + 1 >= Len(lines) /\ Len(lines) < 2
             THEN [st EXCEPT !.ok = FALSE]                 \* lines[-2]
             ELSE
             LET trim_start_time == lines[trim[1] + 1]
                 extra == trim[2] + 1 >= Len(lines)
                 trim_end_time ==
                     IF extra
                     THEN 2 * lines[Len(lines)] - lines[Len(lines) - 1]
                     ELSE lines[trim[2] + 2]
                 lines1 == IF extra THEN Append(lines, trim_end_time)
                           ELSE lines
                 gap == trim_start_time - st.prev_end
                 shifted == PySlice(lines1, trim[1] + 1, trim[2] + 2)
             IN  vfr_loop(trims, i + 1,
                     [ok |-> TRUE,
                      lines |-> lines1,
                      gap |-> gap,
                      prev_end |-> trim_end_time - gap,
                      trims_time |-> Append(st.trims_time,
                          Trim(Time(time_format(trim_start_time)),
                               Time(time_format(trim_end_time)),
                               0, time_format(-gap))),
                      new_lines |-> st.new_lines \o
                          [k \in 1..Len(shifted) |->
                              Format3(shifted[k] - gap)]])

\* frames2time(trims_frames, fps, vfr, otc): ok, the Trims returned, lines
\* as the loop leaves it, and the contents of the timecode file to write
\* (after the header line)
frames2time(trims, rate, tc, isvfr) ==
    IF isvfr
    THEN LET st == vfr_loop(trims, 1,
                       [ok |-> TRUE, lines |-> tc, gap |-> 0, prev_end |-> 0,
                        trims_time |-> <<>>, new_lines |-> <<0>>])
         IN  [ok |-> st.ok, trims_time |-> st.trims_time,
              lines |-> st.lines, new_lines |-> st.new_lines]
    ELSE LET st == cfr_loop(trims, 1, rate,
                       [gap |-> 0, prev_end |-> 0, trims_time |-> <<>>])
         IN  [ok |-> TRUE, trims_time |-> st.trims_time,
              lines |-> tc, new_lines |-> cfr_otc(st.prev_end, rate)]

-----------------------------------------------------------------------------
(* time_subs.  A subtitle event is [start, end, id]: its times in ms and   *)
(* its payload.  line.copy(), the assignment of a Time and shift() are     *)
(* taken to act on values.                                                 *)

\* new_line.shift(**trim.time_shift) / new_line.shift(frame=, fps=)
shift(line, trim, isvfr, rate) ==
    LET delta == IF isvfr THEN Time(trim.time_shift)
                 ELSE FrameTime(trim.frame_shift, rate)
    IN  [line EXCEPT !.start = @ + delta, !.end = @ + delta]

\* cut_line with an overlap test that takes touching bounds as an overlap
cut_line_touch(trim, line, isvfr, rate) ==
    IF line.end >= trim.start /\ line.start <= trim.end
    THEN LET clipped ==
                 [line EXCEPT
                     !.start = IF @ < trim.start THEN trim.start ELSE @,
                     !.end = IF @ > trim.end THEN trim.end ELSE @]
         IN  <<shift(clipped, trim, isvfr, rate)>>
    ELSE <<>>

\* the body of the inner loop: the events new_subs.events gains from
\* (trim, line)
cut_line(trim, line, isvfr, rate) ==
    IF line.end > trim.start /\ line.start < trim.end
    THEN LET clipped ==
                 [line EXCEPT
                     !.start = IF @ < trim.start THEN trim.start ELSE @,
                     !.end = IF @ > trim.end THEN trim.end ELSE @]
         IN  <<shift(clipped, trim, isvfr, rate)>>
    ELSE <<>>

RECURSIVE time_loop(_, _, _, _, _, _, _)
time_loop(trims, evs, i, j, isvfr, rate, events) ==
    IF i > Len(trims) THEN events
    ELSE IF j > Len(evs)
         THEN time_loop(trims, evs, i + 1, 1, isvfr, rate, events)
         ELSE time_loop(trims, evs, i, j + 1, isvfr, rate,
                        events \o cut_line(trims[i], evs[j], isvfr, rate))

time_subs(trims, evs, isvfr, rate) ==
    time_loop(trims, evs, 1, 1, isvfr, rate, <<>>)

-----------------------------------------------------------------------------
(* sub_subs.  A MicroDVD line is [start, end, id, nl]: its two frame       *)
(* numbers, the rest of the line and whether it ends with a newline.       *)

\* the body of the inner loop: the lines new_lines gains from (trim, line)
sub_line(trim, offset, line) ==
    IF line.start < trim[2] /\ line.end > trim[1]
    THEN <<[line EXCEPT
               !.start = (IF @ < trim[1] THEN trim[1] ELSE @) - offset,
               !.end = (IF @ > trim[2] THEN trim[2] ELSE @) - offset]>>
    ELSE <<>>

RECURSIVE sub_inner(_, _, _, _, _)
sub_inner(trim, offset, lines, j, new_lines) ==
    IF j > Len(lines) THEN new_lines
    ELSE sub_inner(trim, offset, lines, j + 1,
                   new_lines \o sub_line(trim, offset, lines[j]))

\* the loop over trims; st holds prev_end, new_lines and ok, which is FALSE
\* once new_lines[-1] has raised IndexError
RECURSIVE sub_loop(_, _, _, _)
sub_loop(trims, lines, i, st) ==
    IF i > Len(trims) \/ ~st.ok THEN st
    ELSE LET trim == trims[i]
             offset == trim[1] - st.prev_end - 1
             got == sub_inner(trim, offset, lines, 1, st.new_lines)
         IN  IF Len(got) = 0
             THEN [st EXCEPT !.ok = FALSE]
             ELSE sub_loop(trims, lines, i + 1,
                      [ok |-> TRUE,
                       prev_end |-> trim[2] - offset,
                       new_lines |-> [got EXCEPT ![Len(got)].nl = TRUE]])

\* sub_subs(trims, input, encoding, output) from the lines read: ok (FALSE:
\* an IndexError left the function) and new_lines
sub_subs(trims, lines) ==
    IF Len(lines) = 0 THEN [ok |-> FALSE, new_lines |-> <<>>]   \* lines[0]
    ELSE LET header == lines[1].start = 1 /\ lines[1].end = 1
             st == sub_loop(trims, IF header THEN Tail(lines) ELSE lines, 1,
                       [ok |-> TRUE, prev_end |-> -1,
                        new_lines |-> IF header THEN <<lines[1]>> ELSE <<>>])
         IN  [ok |-> st.ok, new_lines |-> st.new_lines]

-----------------------------------------------------------------------------
(* main(), from the call of read_trims on; the command line has been       *)
(* processed, which leaves an input subtitle or an output timecode file    *)
(* to work on.                                                             *)

\* trims_frames = read_trims(args.avs, args.reversed, args.label, args.line)
ReadTrims ==
    /\ pc = "read"
    /\ LET r == read_trims(avs, reversed_, label, line_number)
       IN  IF r.ok
           THEN /\ trims_frames' = r.trims
                /\ pc' = "join"
                /\ msg' = msg
           ELSE /\ trims_frames' = trims_frames
                /\ pc' = "exit"
                /\ msg' = r.msg
    /\ UNCHANGED <<avs, reversed_, label, line_number, vfr, fps, tc_header,
                   tc_v1, tc_v2, tc_lines, otc, input, decodable, sub_file,
                   subs, trims_time, new_subs, otc_file, out_file>>

\* trims_frames = join_trims(trims_frames)
JoinTrims ==
    /\ pc = "join"
    /\ trims_frames' = join_trims(trims_frames)
    /\ pc' = "map"
    /\ UNCHANGED <<avs, reversed_, label, line_number, vfr, fps, tc_header,
                   tc_v1, tc_v2, tc_lines, otc, input, decodable, sub_file,
                   subs, trims_time, new_subs, otc_file, out_file, msg>>

\* trims_time = frames2time(trims_frames, args.fps, vfr, args.otc), which
\* writes the timecode file, and the return of main() without an input
Frames2Time ==
    /\ pc = "map"
    /\ LET rd == IF vfr
                 THEN read_timecodes(tc_header, tc_v1, tc_v2, trims_frames)
                 ELSE [ok |-> TRUE, end |-> "", lines |-> tc_lines]
           r == frames2time(trims_frames, fps, rd.lines, vfr)
       IN  IF ~rd.ok
           THEN /\ tc_lines' = tc_lines
                /\ trims_time' = trims_time
                /\ otc_file' = otc_file
                /\ pc' = rd.end
                /\ msg' = IF rd.end = "exit" THEN "Invalid timecode file"
                          ELSE "IndexError"
           ELSE /\ tc_lines' = r.lines
                /\ IF r.ok
                   THEN /\ trims_time' = r.trims_time
                        /\ otc_file' = IF otc THEN <<r.new_lines>>
                                       ELSE otc_file
                        /\ pc' = IF input = "none" THEN "done"
                                 ELSE IF input = "sub" THEN "sub"
                                 ELSE "subs"
                        /\ msg' = msg
                   ELSE /\ trims_time' = trims_time
                        /\ otc_file' = otc_file
                        /\ pc' = "crash"
                        /\ msg' = "IndexError"
    /\ UNCHANGED <<avs, reversed_, label, line_number, vfr, fps, tc_header,
                   tc_v1, tc_v2, otc, input, decodable, sub_file, subs,
                   trims_frames, new_subs, out_file>>

\* sub_subs(trims_frames, args.input, args.encoding, args.output): reads
\* the file, cuts it and writes the output
SubSubs ==
    /\ pc = "sub"
    /\ LET r == sub_subs(trims_frames, sub_file)
       IN  IF ~decodable
           THEN /\ pc' = "exit"
                /\ msg' = "Cannot decode file"
                /\ UNCHANGED <<new_subs, out_file>>
           ELSE IF ~r.ok
           THEN /\ pc' = "crash"
                /\ msg' = "IndexError"
                /\ UNCHANGED <<new_subs, out_file>>
           ELSE /\ new_subs' = r.new_lines
                /\ out_file' = <<r.new_lines>>
                /\ pc' = "done"
                /\ msg' = msg
    /\ UNCHANGED <<avs, reversed_, label, line_number, vfr, fps, tc_header,
                   tc_v1, tc_v2, tc_lines, otc, input, decodable, sub_file,
                   subs, trims_frames, trims_time, otc_file>>

\* subs.from_file(...) with its fallbacks
ReadSubs ==
    /\ pc = "subs"
    /\ IF decodable
       THEN /\ subs' = sub_file
            /\ pc' = "cut"
            /\ msg' = msg
       ELSE /\ subs' = subs
            /\ pc' = "exit"
            /\ msg' = "Cannot decode file"
    /\ UNCHANGED <<avs, reversed_, label, line_number, vfr, fps, tc_header,
                   tc_v1, tc_v2, tc_lines, otc, input, decodable, sub_file,
                   trims_frames, trims_time, new_subs, otc_file, out_file>>

\* subs = time_subs(trims_time, subs, vfr, args.fps)
TimeSubs ==
    /\ pc = "cut"
    /\ new_subs' = time_subs(trims_time, subs, vfr, fps)
    /\ pc' = "save"
    /\ UNCHANGED <<avs, reversed_, label, line_number, vfr, fps, tc_header,
                   tc_v1, tc_v2, tc_lines, otc, input, decodable, sub_file,
                   subs, trims_frames, trims_time, otc_file, out_file, msg>>

\* subs.save(args.output)
Save ==
    /\ pc = "save"
    /\ out_file' = <<new_subs>>
    /\ pc' = "done"
    /\ UNCHANGED <<avs, reversed_, label, line_number, vfr, fps, tc_header,
                   tc_v1, tc_v2, tc_lines, otc, input, decodable, sub_file,
                   subs, trims_frames, trims_time, new_subs, otc_file, msg>>

-----------------------------------------------------------------------------
(* The inputs of a run *)

\* the state main() starts from, for a script, selectors [reversed_, label,
\* line_number], a timebase [vfr, fps, header, v1, tc_lines, otc] and a
\* subtitle input
\* [input, decodable, sub_file]
Start(script, sel, tb, sub) ==
    /\ pc = "read"
    /\ avs = script
    /\ reversed_ = sel.reversed_
    /\ label = sel.label
    /\ line_number = sel.line_number
    /\ vfr = tb.vfr
    /\ fps = tb.fps
    /\ tc_header = tb.header
    /\ tc_v1 = tb.v1
    /\ tc_v2 = tb.tc_lines
    /\ tc_lines = <<>>
    /\ otc = tb.otc
    /\ input = sub.input
    /\ decodable = sub.decodable
    /\ sub_file = sub.sub_file
    /\ subs = <<>>
    /\ trims_frames = <<>>
    /\ trims_time = <<>>
    /\ new_subs = <<>>
    /\ otc_file = <<>>
    /\ out_file = <<>>
    /\ msg = ""

\* the pairs (a, b) of the Trim calls of the free-form scripts
ArgPairs == {<<10, -5>>, <<3, 0>>, <<0, 2>>}

Alphabet ==
    {TrimHead, Hash, WordChar, Sep, Cuts}
        \cup {Tok("args", p[1], p[2]) : p \in ArgPairs}

\* the scripts of n lines with at most t tokens
RECURSIVE ScriptsOf(_, _)
ScriptsOf(n, t) ==
    IF n = 0 THEN {<<>>}
    ELSE UNION {{<<l>> \o rest : l \in SeqsOfLen(Alphabet, k),
                                 rest \in ScriptsOf(n - 1, t - k)} :
                k \in 0..t}

\* the scripts of at most L lines with at most T tokens
FreeScripts(L, T) == UNION {ScriptsOf(n, T) : n \in 1..L}

\* the line Trim(a1,b1)++Trim(a2,b2)++...
RECURSIVE GenLine(_)
GenLine(pairs) ==
    IF Len(pairs) = 0 THEN <<>>
    ELSE IF Len(pairs) = 1
         THEN <<TrimHead, Tok("args", pairs[1][1], pairs[1][2])>>
         ELSE <<TrimHead, Tok("args", pairs[1][1], pairs[1][2]), Sep, Sep>>
                  \o GenLine(Tail(pairs))

AllPairs == (0..MaxFrame) \X ((-MaxNeg)..MaxFrame)

NoSelector == [reversed_ |-> FALSE, label |-> "", line_number |-> 0]

Selectors ==
    [reversed_ : BOOLEAN, label : {"", "cuts"}, line_number : 0..MaxLines]

\* 25 fps, with a timecode file to write and no subtitle
\* a v1 file without any line
NoV1 == [assume |-> <<0, 1>>, inters |-> <<>>]

Cfr25 ==
    [vfr |-> FALSE, fps |-> <<40, 1>>, header |-> "none", v1 |-> NoV1,
     tc_lines |-> <<>>, otc |-> TRUE]

NoSubtitle == [input |-> "none", decodable |-> TRUE, sub_file |-> <<>>]

\* the one-line scripts of Trim calls followed by a comment that holds
\* Trim calls and, or not, the label
CommentedScripts(n) ==
    {<<GenLine(p) \o <<Hash>> \o GenLine(q) \o c>> :
        p \in SeqsUpTo(ArgPairs, n), q \in SeqsUpTo(ArgPairs, 1),
        c \in {<<>>, <<Cuts>>}}

\* free-form and commented scripts with every selector
InitRead ==
    \E script \in FreeScripts(MaxLines, MaxTokens)
                       \cup CommentedScripts(MaxTrims) :
        \E sel \in Selectors :
            Start(script, sel, Cfr25, NoSubtitle)

SpecRead == InitRead /\ [][ReadTrims]_vars

\* one line, free-form or of Trim calls with a comment, and a label or none
InitParse ==
    \E script \in FreeScripts(1, MaxTokens) \cup CommentedScripts(MaxTrims) :
        \E lab \in {"", "cuts"} :
            Start(script, [NoSelector EXCEPT !.label = lab], Cfr25,
                  NoSubtitle)

SpecParse == InitParse /\ [][ReadTrims]_vars

\* one Trim (a, b) for each range: a frame count b <= 0 only for a range
\* that no end frame b > 0 gives
RangePairs ==
    {p \in AllPairs :
        p[2] > 0 \/ trim_range(p)[2] <= 0 \/ trim_range(p)[2] > MaxFrame}

\* one line of Trim calls
InitJoin ==
    \E n \in 0..MaxTrims : \E pairs \in [1..n -> RangePairs] :
        Start(<<GenLine(pairs)>>, NoSelector, Cfr25, NoSubtitle)

SpecJoin == InitJoin /\ [][ReadTrims \/ JoinTrims]_vars

\* the Trims (a, b) with a <= b and b > 0
ValidPairs == {p \in AllPairs : p[1] <= p[2] /\ p[2] > 0}

\* the durations of a frame in a timecode file, in 1/TimeDen ms
FrameDurations == {100, 125}

\* the timecode v2 files of n lines that start with 0.000
RECURSIVE TablesOfLen(_)
TablesOfLen(n) ==
    IF n = 0 THEN {<<>>}
    ELSE IF n = 1 THEN {<<0>>}
    ELSE {Append(t, t[Len(t)] + d) :
             t \in TablesOfLen(n - 1), d \in FrameDurations}

\* the timecode files of at most n lines
TablesUpTo(n) == UNION {TablesOfLen(k) : k \in 0..n}

\* 25 and 24000/1001 fps
Rates == {<<40, 1>>, <<1001, 24>>}

CfrTimebases(O) ==
    {[vfr |-> FALSE, fps |-> r, header |-> "none", v1 |-> NoV1,
      tc_lines |-> <<>>, otc |-> o] :
        r \in Rates, o \in O}

VfrTimebases(tables, O) ==
    {[vfr |-> TRUE, fps |-> <<0, 1>>, header |-> "v2", v1 |-> NoV1,
      tc_lines |-> t, otc |-> o] :
        t \in tables, o \in O}

\* the v1 timecode files of "Assume 25" and at most n lines s,e,20 with
\* 0 <= s <= e <= F, in any order
V1Files(n, F) ==
    LET R == {<<r[1], r[2], <<50, 1>>>> :
                 r \in {r \in (0..F) \X (0..F) : r[1] <= r[2]}}
    IN  {[assume |-> <<40, 1>>, inters |-> rs] : rs \in SeqsUpTo(R, n)}

V1Timebases(files, O) ==
    {[vfr |-> TRUE, fps |-> <<0, 1>>, header |-> "v1", v1 |-> f,
      tc_lines |-> <<>>, otc |-> o] :
        f \in files, o \in O}

\* a timecode file whose header line is neither that of v1 nor that of v2
OtherTimebases(O) ==
    {[vfr |-> TRUE, fps |-> <<0, 1>>, header |-> "other", v1 |-> NoV1,
      tc_lines |-> <<>>, otc |-> o] :
        o \in O}

\* the times in ms at which a frame of 0..n of the timebase starts
FrameStarts(tb, n) ==
    IF tb.vfr THEN {Round(tb.tc_lines[k]) : k \in 1..Len(tb.tc_lines)}
    ELSE {FrameTime(f, tb.fps) : f \in 0..n}

\* the files of at most n subtitle events that start and end at times of
\* T, each event with its place in the file as payload
EventsAt(T, n) ==
    LET E == {e \in T \X T : e[1] < e[2]}
    IN  {[j \in 1..Len(es) |->
             [start |-> es[j][1], end |-> es[j][2], id |-> j]] :
         es \in SeqsUpTo(E, n)}

AssInputs(T, n, D) ==
    {[input |-> "ass", decodable |-> d, sub_file |-> es] :
        es \in EventsAt(T, n), d \in D}

\* the MicroDVD files of at most n lines {s}{e} with s <= e, after a header
\* line {1}{1} or none (H), the last line with or without a newline (NL)
SubFiles(n, H, NL) ==
    LET F == 0..(MaxFrame + 1)
        E == {e \in F \X F : e[1] <= e[2]}
        header == [start |-> 1, end |-> 1, id |-> 0, nl |-> TRUE]
    IN  {(IF h THEN <<header>> ELSE <<>>) \o
             [j \in 1..Len(es) |->
                 [start |-> es[j][1], end |-> es[j][2], id |-> j,
                  nl |-> (j < Len(es) \/ nl)]] :
         h \in H, es \in SeqsUpTo(E, n), nl \in NL}

SubInputs(n, H, NL, D) ==
    {[input |-> "sub", decodable |-> d, sub_file |-> f] :
        f \in SubFiles(n, H, NL), d \in D}

OneEvent ==
    [input |-> "ass", decodable |-> TRUE,
     sub_file |-> <<[start |-> 0, end |-> 100, id |-> 1]>>]

\* one line of Trim calls, with a constant rate or a timecode file, v2,
\* v1 or neither
InitMap ==
    \E pairs \in SeqsUpTo(AllPairs, MaxCutTrims) :
        \E tb \in CfrTimebases(BOOLEAN)
                   \cup VfrTimebases(TablesUpTo(MaxFrame + 2), BOOLEAN)
                   \cup V1Timebases(V1Files(MaxRanges, MaxFrame), BOOLEAN)
                   \cup OtherTimebases(BOOLEAN) :
            Start(<<GenLine(pairs)>>, NoSelector, tb, OneEvent)

SpecMap == InitMap /\ [][ReadTrims \/ JoinTrims \/ Frames2Time]_vars

\* one line of Trim calls and a subtitle: events with a constant rate or a
\* timecode file, or MicroDVD lines
InitCut ==
    \E pairs \in SeqsUpTo(ValidPairs, MaxCutTrims) :
        \/ \E tb \in CfrTimebases({FALSE})
                         \cup VfrTimebases(TablesOfLen(MaxFrame + 2), {FALSE}) :
               \E sub \in AssInputs(FrameStarts(tb, MaxFrame + 1),
                                     MaxEvents, {TRUE}) :
                   Start(<<GenLine(pairs)>>, NoSelector, tb, sub)
        \/ \E sub \in SubInputs(MaxEvents, BOOLEAN, BOOLEAN, {TRUE}) :
               Start(<<GenLine(pairs)>>, NoSelector,
                     [Cfr25 EXCEPT !.otc = FALSE], sub)

SpecCut ==
    InitCut /\ [][ReadTrims \/ JoinTrims \/ Frames2Time \/ SubSubs
                    \/ ReadSubs \/ TimeSubs \/ Save]_vars

\* the Trims (a, b) of frames up to MaxCutFrame that keep a frame at least
CutPairs ==
    {p \in (0..MaxCutFrame) \X ((-MaxNeg)..MaxCutFrame) :
        trim_range(p)[1] <= trim_range(p)[2]}

\* the lists of at most n Trims of P, each after the end of the one before
AscendingLists(P, n) ==
    {l \in SeqsUpTo(P, n) :
        \A i \in 1..(Len(l) - 1) :
            trim_range(l[i + 1])[1] > trim_range(l[i])[2]}

\* the timecode v2 files of n lines whose frames last d[1] and d[2] in turn
RECURSIVE AlternatingTable(_, _)
AlternatingTable(n, d) ==
    IF n = 0 THEN <<>>
    ELSE IF n = 1 THEN <<0>>
    ELSE LET t == AlternatingTable(n - 1, d)
         IN  Append(t, t[Len(t)] + d[2 - (n % 2)])

\* a constant rate, or a timecode file of frames that last 100 and 125
\* in turn, and no timecode file to write
CutTimebases ==
    CfrTimebases({FALSE})
        \cup VfrTimebases({AlternatingTable(MaxCutFrame + 2, d) :
                              d \in {<<100, 125>>, <<125, 100>>}}, {FALSE})

\* one line of ascending Trim calls and a file of events, in any order,
\* that start and end where frames start
InitTime ==
    \E pairs \in AscendingLists(CutPairs, MaxCutTrims) :
        \E tb \in CutTimebases :
            \E sub \in AssInputs(FrameStarts(tb, MaxCutFrame + 1),
                                  MaxEvents, {TRUE}) :
                Start(<<GenLine(pairs)>>, NoSelector, tb, sub)

SpecTime ==
    InitTime /\ [][ReadTrims \/ JoinTrims \/ Frames2Time \/ ReadSubs
                     \/ TimeSubs \/ Save]_vars

\* one line of Trim calls that keep a frame at least, in any order, a v2
\* timecode file of up to MaxCutFrame + 2 lines and a timecode file to write
InitTable ==
    \E pairs \in SeqsUpTo(CutPairs, MaxCutTrims) :
        \E tb \in VfrTimebases(TablesUpTo(MaxCutFrame + 2), {TRUE}) :
            Start(<<GenLine(pairs)>>, NoSelector, tb, NoSubtitle)

SpecTable == InitTable /\ [][ReadTrims \/ JoinTrims \/ Frames2Time]_vars

\* the whole of main(): one line of Trim calls or a script without any, a
\* constant rate or a timecode file, a timecode file to write or not, and
\* no subtitle or one that can be decoded or not
InitMain ==
    \E pairs \in SeqsUpTo(ValidPairs, MaxCutTrims) :
        \E tb \in CfrTimebases(BOOLEAN)
                   \cup VfrTimebases(TablesUpTo(MaxFrame + 2), BOOLEAN) :
            \E sub \in {NoSubtitle}
                       \cup AssInputs(FrameStarts(tb, MaxFrame + 1), 1, BOOLEAN)
                       \cup SubInputs(1, {FALSE}, {TRUE}, BOOLEAN) :
                /\ tb.otc \/ sub.input # "none"
                /\ Start(<<GenLine(pairs)>>, NoSelector, tb, sub)

Next ==
    \/ ReadTrims
    \/ JoinTrims
    \/ Frames2Time
    \/ SubSubs
    \/ ReadSubs
    \/ TimeSubs
    \/ Save

Spec == InitMain /\ [][Next]_vars

-----------------------------------------------------------------------------
(* Properties of read_trims *)

\* what read_trims returned for the inputs of the run
Parsed == read_trims(avs, reversed_, label, line_number)

\* the k-th smallest element of a set of integers
KthOf(S, k) == CHOOSE x \in S : Cardinality({y \in S : y < x}) = k - 1

\* the line of the script that read_trims selected
SelectedLine ==
    LET sliced == IF line_number # 0 THEN line_slice(avs, line_number)
                  ELSE avs
        lines == IF reversed_ THEN Reverse(sliced) ELSE sliced
    IN  lines[selected_line(lines, label)]

\* the places of the Trim calls before the first hash of a line
CallsOf(line) == {i \in 1..Len(line) : MatchAt(line, i)}

\* C4: the pair (a, b) of a Trim call gives the kept range (a, b) if b > 0
\* and (a, a - b - 1) if b <= 0.
C4_PairRange ==
    pc = "join" =>
        LET line == SelectedLine
            calls == CallsOf(line)
        IN  \A k \in 1..Min(Len(trims_frames), Cardinality(calls)) :
                LET args == line[KthOf(calls, k) + 1]
                IN  trims_frames[k] =
                        IF args.b > 0 THEN <<args.a, args.b>>
                        ELSE <<args.a, args.a - args.b - 1>>

\* Trim(10,-5)++Trim(3,0)++Trim(0,2) has been parsed to (10, 14), (3, 2),
\* (0, 2)
C4_Witness ==
    /\ pc = "join"
    /\ avs = <<GenLine(<<<<10, -5>>, <<3, 0>>, <<0, 2>>>>) \o <<Hash>>>>
    /\ trims_frames = <<<<10, 14>>, <<3, 2>>, <<0, 2>>>>

\* C5: read_trims returns one interval per Trim call standing before the
\* first hash of the selected line, in the order of the line, and each
\* search of the scan ends left of its boundary.
C5_AllCallsInOrder ==
    pc = "join" =>
        LET line == SelectedLine
            calls == CallsOf(line)
        IN  /\ Len(trims_frames) = Cardinality(calls)
            /\ \A k \in 1..Len(trims_frames) :
                   LET p == KthOf(calls, k)
                   IN  trims_frames[k] =
                           trim_range(<<line[p + 1].a, line[p + 1].b>>)
            /\ \A end \in 1..Len(line) :
                   re_trim_search(SubSeq(line, 1, end)) < end

\* of Trim(0,2)++Trim(10,-5)#Trim(3,0) the two calls before the hash have
\* been returned in order
C5_Witness ==
    /\ pc = "join"
    /\ SelectedLine = GenLine(<<<<0, 2>>, <<10, -5>>>>) \o <<Hash>>
                          \o GenLine(<<<<3, 0>>>>)
    /\ trims_frames = <<<<0, 2>>, <<10, 14>>>>

\* C6: with a line number the label is ignored: the run ends as it does
\* without the label.
C6_LabelIgnored ==
    (pc # "read" /\ line_number # 0) =>
        LET r == read_trims(avs, reversed_, "", line_number)
        IN  /\ (pc = "join") = r.ok
            /\ pc = "join" => trims_frames = r.trims

\* C14: every interval that read_trims returns has 0 <= start <= end; a
\* pair Trim(a, b) that gives an end below its start is not returned.
C14_ValidIntervals ==
    pc = "join" =>
        \A i \in 1..Len(trims_frames) :
            /\ 0 <= trims_frames[i][1]
            /\ trims_frames[i][1] <= trims_frames[i][2]

-----------------------------------------------------------------------------
(* Properties of join_trims *)

\* the frames an interval list keeps
Kept(trims) ==
    UNION {trims[i][1]..trims[i][2] : i \in 1..Len(trims)}

Ascending(trims) ==
    /\ \A i \in 1..Len(trims) : trims[i][1] <= trims[i][2]
    /\ \A i \in 1..(Len(trims) - 1) : trims[i + 1][1] > trims[i][2]

Overlapping(trims) ==
    \E i \in 1..(Len(trims) - 1) : trims[i + 1][1] <= trims[i][2]

\* the indices at which a maximal run of adjacent intervals starts
RunStarts(trims) ==
    {i \in 1..Len(trims) : i = 1 \/ trims[i][1] - trims[i - 1][2] # 1}

\* C7: of an ascending list without overlaps, join_trims returns the
\* maximal runs of adjacent intervals, each as one interval; the kept
\* frames are those of the input and no two intervals returned are
\* adjacent.
C7_MaximalRuns ==
    pc = "map" =>
        LET L == Parsed.trims
            starts == RunStarts(L)
        IN  (L # <<>> /\ Ascending(L)) =>
                /\ Len(trims_frames) = Cardinality(starts)
                /\ \A k \in 1..Len(trims_frames) :
                       LET first == KthOf(starts, k)
                           last == IF k = Cardinality(starts) THEN Len(L)
                                   ELSE KthOf(starts, k + 1) - 1
                       IN  trims_frames[k] = <<L[first][1], L[last][2]>>
                /\ Kept(trims_frames) = Kept(L)
                /\ \A k \in 1..(Len(trims_frames) - 1) :
                       trims_frames[k + 1][1] - trims_frames[k][2] # 1

\* (0,0), (1,1), (3,3) has been joined to (0,1), (3,3)
C7_Witness ==
    /\ pc = "map"
    /\ Parsed.trims = <<<<0, 0>>, <<1, 1>>, <<3, 3>>>>
    /\ trims_frames = <<<<0, 1>>, <<3, 3>>>>

\* C8: join_trims of what join_trims returned is that list again.
C8_Idempotent ==
    pc = "map" => join_trims(trims_frames) = trims_frames

\* a run of three intervals has been joined to one
C8_Witness ==
    /\ pc = "map"
    /\ Len(Parsed.trims) = 3
    /\ Len(trims_frames) = 1
    /\ trims_frames[1][1] < trims_frames[1][2]

\* C9: with two consecutive intervals that overlap the run ends in an
\* OverlappingIntervals error at join_trims.
C9_OverlapRejected ==
    (pc \notin {"read", "join"} /\ Parsed.ok /\ Overlapping(Parsed.trims)) =>
        (pc = "exit" /\ msg = "OverlappingIntervals")

-----------------------------------------------------------------------------
(* Properties of frames2time *)

\* the start and the end of the i-th Trim on the output timeline: in ms
\* with a timecode file, in frames with a constant rate
ShiftedStart(i) ==
    IF vfr THEN trims_time[i].start + Time(trims_time[i].time_shift)
    ELSE trims_frames[i][1] + trims_time[i].frame_shift

ShiftedEnd(i) ==
    IF vfr THEN trims_time[i].end + Time(trims_time[i].time_shift)
    ELSE trims_frames[i][2] + 1 + trims_time[i].frame_shift

\* C2: the Trims that frames2time returns tile the output timeline: the
\* first starts at 0 when shifted, and each next one starts, when shifted,
\* where the one before ends.
C2_Tiles ==
    trims_time # <<>> =>
        /\ ShiftedStart(1) = 0
        /\ \A i \in 1..(Len(trims_time) - 1) :
               ShiftedStart(i + 1) = ShiftedEnd(i)

\* the frames that a list of intervals keeps, in the order of the list
RECURSIVE KeptFrames(_)
KeptFrames(trims) ==
    IF Len(trims) = 0 THEN <<>>
    ELSE [k \in 1..(trims[1][2] - trims[1][1] + 1) |-> trims[1][1] + k - 1]
             \o KeptFrames(Tail(trims))

\* every interval keeps a frame at least and the v2 file has a line for
\* each frame kept and for the frame after it
Covered ==
    \A i \in 1..Len(trims_frames) :
        /\ trims_frames[i][1] <= trims_frames[i][2]
        /\ trims_frames[i][2] + 1 < Len(tc_v2)

\* the duration of the j-th frame of the timecode file written less that
\* of the j-th frame kept in the file read, in 1/(1000 * TimeDen) ms
DurationError(j) ==
    LET emitted == otc_file[1]
        f == KeptFrames(trims_frames)[j]
    IN  (emitted[j + 1] - emitted[j]) * TimeDen
            - (tc_v2[f + 2] - tc_v2[f + 1]) * 1000

MappedV2 ==
    /\ tc_header = "v2"
    /\ trims_frames # <<>>
    /\ pc \notin {"read", "join", "map"}

\* an interval starts beyond the last line of the v2 file, or the frame
\* after its end is more than one beyond it
OutOfRange(trim) ==
    trim[1] >= Len(tc_v2) \/ trim[2] + 1 > Len(tc_v2)

\* C12: with a v2 file, an interval that is out of range makes the run
\* fail without any Trim returned; otherwise the end of a Trim is
\* extrapolated as 2 * last - second to last when the frame after its end
\* is one beyond the last line, and read from the file when it is not; and
\* the lines read from the file are not changed.
C12_OnlyOnePast ==
    MappedV2 =>
        /\ (\E i \in 1..Len(trims_frames) : OutOfRange(trims_frames[i])) =>
               (pc \in {"crash", "exit"} /\ trims_time = <<>>)
        /\ pc \notin {"crash", "exit"} =>
               /\ tc_lines = tc_v2
               /\ \A i \in 1..Len(trims_time) :
                      LET e == trims_frames[i][2] + 1
                          n == Len(tc_v2)
                      IN  trims_time[i].end =
                              Time(time_format(
                                  IF e = n THEN 2 * tc_v2[n] - tc_v2[n - 1]
                                  ELSE tc_v2[e + 1]))

\* the greatest element of a non-empty set of integers
Greatest(S) == CHOOSE x \in S : \A y \in S : y <= x

\* no two lines of the v1 file declare the same frame
Disjoint(inters) ==
    \A i \in 1..Len(inters) : \A j \in 1..Len(inters) :
        i < j => (inters[i][2] < inters[j][1] \/ inters[j][2] < inters[i][1])

\* the ranges are ascending and contiguous from frame 0 to frame top
CoversOnce(ranges, top) ==
    /\ Len(ranges) > 0
    /\ ranges[1][1] = 0
    /\ ranges[Len(ranges)][2] = top
    /\ \A k \in 1..Len(ranges) : ranges[k][1] <= ranges[k][2]
    /\ \A k \in 1..(Len(ranges) - 1) : ranges[k + 1][1] = ranges[k][2] + 1

\* C13: for a v1 file whose lines declare no frame twice, the ranges that
\* timecode_v1_to_v2 builds are ascending and contiguous from frame 0 to
\* the greatest frame declared or kept, each either a line of the file or
\* at the rate of the Assume line, and the table has a line for every
\* frame kept and the frame after it.
C13_GapFilled ==
    (tc_header = "v1" /\ trims_frames # <<>> /\ Disjoint(tc_v1.inters)
        /\ pc \notin {"read", "join", "map"}) =>
        LET declared == tc_v1.inters
            top == Greatest(
                {trims_frames[i][2] : i \in 1..Len(trims_frames)}
                    \cup {declared[i][2] : i \in 1..Len(declared)})
            r == timecode_v1_to_v2(tc_v1, trims_frames[Len(trims_frames)][2])
            ranges == v1_all_inters(declared,
                          trims_frames[Len(trims_frames)][2], tc_v1.assume)
        IN  /\ r.ok
            /\ CoversOnce(ranges, top)
            /\ \A k \in 1..Len(ranges) :
                   \/ \E i \in 1..Len(declared) : ranges[k] = declared[i]
                   \/ ranges[k][3] = tc_v1.assume
            /\ Len(r.v2) >= top + 2

-----------------------------------------------------------------------------
(* Properties of time_subs *)

\* the time by which time_subs shifts the events of the i-th Trim
ShiftOf(i) ==
    IF vfr THEN Time(trims_time[i].time_shift)
    ELSE FrameTime(trims_time[i].frame_shift, fps)

\* the pairs (Trim, event) that overlap, both bounds strict
OverlapPairs ==
    {p \in (1..Len(trims_time)) \X (1..Len(subs)) :
        /\ subs[p[2]].end > trims_time[p[1]].start
        /\ subs[p[2]].start < trims_time[p[1]].end}

\* the place of a pair among the overlapping ones, Trims first
PlaceOf(p) ==
    1 + Cardinality({q \in OverlapPairs :
                        q[1] < p[1] \/ (q[1] = p[1] /\ q[2] < p[2])})

\* C1: time_subs returns one event for each pair (Trim, event) with
\* event.end > trim.start and event.start < trim.end, none for any other
\* pair, ordered by Trim and then by event; its times before the shift are
\* max(event.start, trim.start) and min(event.end, trim.end).
C1_OnePerOverlap ==
    pc = "save" =>
        /\ Len(new_subs) = Cardinality(OverlapPairs)
        /\ \A p \in OverlapPairs :
               LET out == new_subs[PlaceOf(p)]
                   trim == trims_time[p[1]]
                   line == subs[p[2]]
               IN  /\ out.id = line.id
                   /\ out.start - ShiftOf(p[1]) = Max(line.start, trim.start)
                   /\ out.end - ShiftOf(p[1]) = Min(line.end, trim.end)

\* with two Trims and two events, the first event, which spans both
\* Trims, has been returned twice, clipped to either Trim, and the second,
\* which starts where the first Trim ends and ends where the second Trim
\* starts, has been dropped
C1_Witness ==
    /\ pc = "save"
    /\ Len(trims_time) = 2
    /\ Len(subs) = 2
    /\ trims_time[1].end < trims_time[2].start
    /\ subs[1].start <= trims_time[1].start
    /\ subs[1].end >= trims_time[2].end
    /\ subs[2].start = trims_time[1].end
    /\ subs[2].end = trims_time[2].start
    /\ Len(new_subs) = 2
    /\ new_subs[1].id = 1
    /\ new_subs[2].id = 1

\* the Trims and the events of the run all start before they end
StartBeforeEnd ==
    /\ \A i \in 1..Len(trims_time) : trims_time[i].start < trims_time[i].end
    /\ \A j \in 1..Len(subs) : subs[j].start < subs[j].end

\* the time kept by the Trims, in ms: the prev_end that frames2time has
\* reached after the last Trim (a time in 1/TimeDen ms with a timecode file,
\* a number of frames with a constant rate), rounded as time_format rounds
KeptTime ==
    LET lines == read_timecodes(tc_header, tc_v1, tc_v2, trims_frames).lines
    IN  IF vfr
        THEN RoundDiv(vfr_loop(trims_frames, 1,
                          [ok |-> TRUE, lines |-> lines, gap |-> 0,
                           prev_end |-> 0, trims_time |-> <<>>,
                           new_lines |-> <<0>>]).prev_end, TimeDen)
        ELSE RoundDiv(cfr_loop(trims_frames, 1, fps,
                          [gap |-> 0, prev_end |-> 0,
                           trims_time |-> <<>>]).prev_end * fps[1], fps[2])

\* C16: of Trims and events that start before they end, every event that
\* time_subs returns starts before it ends and lies in the span that its
\* Trim has once shifted, hence between 0 and the time kept.
C16_InsideSpan ==
    (pc = "save" /\ StartBeforeEnd) =>
        /\ \A p \in OverlapPairs :
               LET out == new_subs[PlaceOf(p)]
                   trim == trims_time[p[1]]
               IN  /\ trim.start + ShiftOf(p[1]) <= out.start
                   /\ out.start < out.end
                   /\ out.end <= trim.end + ShiftOf(p[1])
        /\ \A k \in 1..Len(new_subs) :
               /\ new_subs[k].start < new_subs[k].end
               /\ 0 <= new_subs[k].start
               /\ new_subs[k].end <= KeptTime

-----------------------------------------------------------------------------
(* Properties of sub_subs *)

\* the lines of the MicroDVD file after the header line, if any
BodyOf(lines) ==
    IF Len(lines) > 0 /\ lines[1].start = 1 /\ lines[1].end = 1
    THEN Tail(lines) ELSE lines

\* the lines of the MicroDVD file as events at the constant rate
AsEvents(lines) ==
    [j \in 1..Len(lines) |->
        [start |-> FrameTime(lines[j].start, fps),
         end |-> FrameTime(lines[j].end, fps), id |-> lines[j].id]]

\* what time_subs returns for the Trims and the lines of the run at the
\* constant rate
TimeCut ==
    time_subs(frames2time(trims_frames, fps, <<>>, FALSE).trims_time,
              AsEvents(BodyOf(sub_file)), FALSE, fps)

\* C10: sub_subs keeps the lines that time_subs keeps at a constant rate,
\* with the same frame numbers.
C10_SameAsTimeCut ==
    (pc = "done" /\ input = "sub") =>
        LET out == BodyOf(new_subs)
        IN  /\ Len(out) = Len(TimeCut)
            /\ \A k \in 1..Len(out) :
                   /\ out[k].id = TimeCut[k].id
                   /\ FrameTime(out[k].start, fps) = TimeCut[k].start
                   /\ FrameTime(out[k].end, fps) = TimeCut[k].end

\* C15: sub_subs ends normally for every list of intervals and every
\* MicroDVD file that can be decoded, with or without a header line; when
\* no line overlaps an interval the file written has no subtitle line.
C15_AlwaysCompletes ==
    (input = "sub" /\ decodable /\ trims_frames # <<>>
        /\ pc \notin {"read", "join", "map", "sub"}) =>
        /\ pc = "done"
        /\ (\A i \in 1..Len(trims_frames) :
                \A j \in 1..Len(BodyOf(sub_file)) :
                    sub_line(trims_frames[i], 0, BodyOf(sub_file)[j]) = <<>>)
               => BodyOf(out_file[1]) = <<>>

-----------------------------------------------------------------------------
(* Properties of main *)

\* C3: a run that has failed, by exit() or by an uncaught exception, has
\* written no output file, neither the timecode file nor the subtitle.
C3_AllOrNothing ==
    pc \in {"exit", "crash"} => (otc_file = <<>> /\ out_file = <<>>)

=============================================================================
